---- MODULE Spec2Model ----
(***************************************************************************)
(* Training and evaluation drivers of the language-model repository:       *)
(*   src/src/train.py, src/src/train_inverse_bert.py, src/src/evaluate.py  *)
(*                                                                         *)
(* Six specifications share the variables below:                           *)
(*   Spec       one training process (train.py or train_inverse_bert.py)   *)
(*              started, interrupted and restarted over a checkpoint       *)
(*              directory;                                                 *)
(*   SpecEval   the same trainer together with the evaluate.py process     *)
(*              reading that directory;                                    *)
(*   SpecPoll   one continuous train.py run and an evaluate.py process in  *)
(*              polling mode that is scheduled fairly;                     *)
(*   SpecLoss   the loss / metric masks as pure functions of a batch;      *)
(*   SpecBucket the bucket schedule of train.py's get_dataset;             *)
(*   SpecPrefix the paragraph pipeline of train_inverse_bert.py's          *)
(*              get_dataset.                                               *)
(***************************************************************************)
EXTENDS Integers, Sequences, FiniteSets, TLC

VARIABLES
    \* ---- the checkpoint directory (shared, on disk)
    ckpts,                  \* retained checkpoints, oldest first; the last is the latest
    saved,                  \* history: the tag of every save ever made, in order
    \* ---- the training process
    driver,                 \* "train" (train.py) or "inverse_bert" (train_inverse_bert.py)
    tpc,                    \* position of the training process
    checkpoint_every,       \* flags.FLAGS.checkpoint_every of the running process
    continuous,             \* flags.FLAGS.continuous of the running process
    global_step,            \* tf.Variable global_step
    num_examples_processed, \* tf.Variable num_examples_processed
    params,                 \* gradient updates contained in the in-memory parameters
    ds_next,                \* index (in the unskipped stream) of the next batch of ds
    batch_rows,             \* rows of the batch in flight (0: none)
    run,                    \* history of the running process
    used,                   \* history: used[s] is the stream index of the batch of step s
                            \* in the line of runs that led to the current parameters
    \* ---- the evaluation process
    epc,                    \* position of the evaluation process
    wait_for_checkpoint,    \* flags.FLAGS.wait_for_checkpoint
    latest_checkpoint,      \* main's local latest_checkpoint (0: None)
    mgr_latest,             \* ckpt_manager.latest_checkpoint inside evaluate (0: None)
    eval_model,             \* what evaluate's model and global_step hold
    emitted,                \* history: the summaries written by each evaluation
    eval_interrupted,       \* history: a KeyboardInterrupt reached the evaluator
    \* ---- pure functions: loss masks
    lpc, batch, loss_out,
    \* ---- pure functions: bucket schedule
    bpc, max_tokens, max_seq_len, seq_len, bucket_out,
    windows,                \* group_by_window: the pending sequence lengths of each bucket
    out_batch,              \* the batch the last element made the pipeline emit, if any
    fed,                    \* history: sequences that have entered the bucketing
    delivered,              \* history: sequences that have left it in a batch
    \* ---- pure functions: the paragraphs of train_inverse_bert.py's get_dataset
    ppc,                    \* position of the pipeline within one article
    article,                \* the segments between "<p>" of the line read
    paragraphs,             \* split_article's result: the stripped paragraphs (lengths)
    pidx,                   \* the paragraph the filter looks at next (from 1)
    sequences               \* the training sequences produced so far

trainVars  == <<ckpts, saved, driver, tpc, checkpoint_every, continuous, global_step,
                num_examples_processed, params, ds_next, batch_rows, run, used>>
evalVars   == <<epc, wait_for_checkpoint, latest_checkpoint, mgr_latest, eval_model, emitted,
                eval_interrupted>>
lossVars   == <<lpc, batch, loss_out>>
bucketVars == <<bpc, max_tokens, max_seq_len, seq_len, bucket_out, windows, out_batch,
                fed, delivered>>
prefixVars == <<ppc, article, paragraphs, pidx, sequences>>
vars       == <<trainVars, evalVars, lossVars, bucketVars, prefixVars>>

-----------------------------------------------------------------------------
(* Bounds of the model *)

MaxStep == 7            \* the training loop is explored up to this global step
MaxEvals == 2           \* evaluations explored per behaviour
MaxEvery == 2           \* checkpoint_every ranges over 1..MaxEvery

(* Program constants *)

max_to_keep == 5        \* CheckpointManager(..., max_to_keep=5)

CheckpointEverySet == 1..MaxEvery

\* Rows of the batches of one pass over the dataset; the stream repeats it
\* (ds.repeat()), so batch i of the stream has DatasetRows[(i % Len) + 1] rows.
DatasetRows == <<2, 1, 3>>

StreamRows(i) == DatasetRows[(i % Len(DatasetRows)) + 1]

-----------------------------------------------------------------------------
(* tf.train.CheckpointManager / tf.train.Checkpoint as the drivers use them *)

NoCheckpoint == 0

Tags(dir) == {dir[i].tag : i \in 1..Len(dir)}

\* ckpt_manager.latest_checkpoint / tf.train.latest_checkpoint: the path of
\* the most recent checkpoint, None (0) when the directory holds none.
LatestCheckpoint(dir) == IF Len(dir) = 0 THEN NoCheckpoint ELSE dir[Len(dir)].tag

\* The checkpoint stored under a path.
ReadCheckpoint(dir, tag) == CHOOSE c \in {dir[i] : i \in 1..Len(dir)} : c.tag = tag

\* Mutation of Sweep: the newest entries are deleted instead of the oldest.
SweepNewest(dir, keep) ==
    IF Len(dir) > keep THEN SubSeq(dir, 1, keep) ELSE dir

\* The oldest entries are deleted until at most `keep` remain.
Sweep(dir, keep) ==
    IF Len(dir) > keep THEN SubSeq(dir, Len(dir) - keep + 1, Len(dir)) ELSE dir

\* ckpt_manager.save(checkpoint_number=n): writes the tracked objects under
\* tag n, makes it the latest (a path saved before moves to the end), and
\* sweeps the retention list.
ManagerSave(dir, c) ==
    Sweep(SelectSeq(dir, LAMBDA d : d.tag # c.tag) \o <<c>>, max_to_keep)

\* The tag handed to save(): checkpoint_number=global_step.
CheckpointNumber(step, nsaved) == step

\* What tf.train.Checkpoint(transformer_decoder, optimizer, global_step,
\* num_examples_processed) binds at a save.
Snapshot(step, examples, updates, nsaved) ==
    [tag |-> CheckpointNumber(step, nsaved), global_step |-> step,
     num_examples_processed |-> examples, updates |-> updates]

\* Mutation of ShouldCheckpoint: only every second multiple is saved.
ShouldCheckpointSparse(step, every) == step % (2 * every) = 0

\* Mutation of ShouldCheckpoint: the test looks one step ahead.
ShouldCheckpointEarly(step, every) == (step + 1) % every = 0

\* `if global_step.numpy() % checkpoint_every == 0`
ShouldCheckpoint(step, every) == step % every = 0

\* Mutation of RestoredState: num_examples_processed is left out of the
\* tf.train.Checkpoint and so is not restored.
RestoredStateNoExamples(dir) ==
    IF LatestCheckpoint(dir) # NoCheckpoint
    THEN LET c == ReadCheckpoint(dir, LatestCheckpoint(dir))
         IN  [global_step |-> c.global_step, num_examples_processed |-> 0,
              updates |-> c.updates]
    ELSE [global_step |-> 0, num_examples_processed |-> 0, updates |-> 0]

\* Mutation of RestoredState: the model is left out of the
\* tf.train.Checkpoint and so starts from fresh parameters.
RestoredStateNoModel(dir) ==
    IF LatestCheckpoint(dir) # NoCheckpoint
    THEN LET c == ReadCheckpoint(dir, LatestCheckpoint(dir))
         IN  [global_step |-> c.global_step,
              num_examples_processed |-> c.num_examples_processed,
              updates |-> 0]
    ELSE [global_step |-> 0, num_examples_processed |-> 0, updates |-> 0]

\* `if ckpt_manager.latest_checkpoint: ckpt.restore(...)`: the counters and
\* parameters after initialization.
RestoredState(dir) ==
    IF LatestCheckpoint(dir) # NoCheckpoint
    THEN LET c == ReadCheckpoint(dir, LatestCheckpoint(dir))
         IN  [global_step |-> c.global_step,
              num_examples_processed |-> c.num_examples_processed,
              updates |-> c.updates]
    ELSE [global_step |-> 0, num_examples_processed |-> 0, updates |-> 0]

\* Mutation of DatasetSkip: the dataset is built without a skip.
DatasetSkipNone(d, step) == 0

\* The skip handed to get_dataset: train.py passes skip=global_step.numpy();
\* train_inverse_bert.py builds its dataset with the default skip=0.
DatasetSkip(d, step) == IF d = "train" THEN step ELSE 0

\* Where an interrupt in the loop leaves the process: train.py wraps
\* train_loop in try/except KeyboardInterrupt; train_inverse_bert.py runs its
\* loop bare in main.
TrainerAfterInterrupt(d) == IF d = "train" THEN "done" ELSE "crashed"

\* Mutation of AfterSave: the `break` is missing.
AfterSaveNoBreak(d, cont) == "loop"

\* After a save: `if not continuous: break` (train.py only).
AfterSave(d, cont) == IF d = "train" /\ ~cont THEN "done" ELSE "loop"

FreshRun == [steps |-> 0, saves |-> 0, interrupted |-> FALSE, restored |-> NoCheckpoint]

LoopPcs == {"loop", "incremented", "counted", "stepped"}

-----------------------------------------------------------------------------
(* The training process *)

\* main up to the construction of the CheckpointManager: fresh model,
\* optimizer and zero counters (train.py 111-127, train_inverse_bert.py 72-92).
TStart ==
    /\ UNCHANGED <<evalVars, lossVars, bucketVars, prefixVars>>
    /\ tpc \in {"idle", "done", "crashed"}
    /\ tpc' = "init"
    /\ checkpoint_every' \in CheckpointEverySet
    /\ continuous' \in (IF driver = "train" THEN BOOLEAN ELSE {TRUE})
    /\ global_step' = 0
    /\ num_examples_processed' = 0
    /\ params' = 0
    /\ ds_next' = 0
    /\ batch_rows' = 0
    /\ run' = FreshRun
    /\ UNCHANGED <<ckpts, saved, driver, used>>

\* Restore of the latest checkpoint if there is one, then the dataset
\* (train.py 128-138, train_inverse_bert.py 75-76 and 93-95).
TRestore ==
    /\ UNCHANGED <<evalVars, lossVars, bucketVars, prefixVars>>
    /\ tpc = "init"
    /\ LET r == RestoredState(ckpts)
       IN  /\ global_step' = r.global_step
           /\ num_examples_processed' = r.num_examples_processed
           /\ params' = r.updates
           /\ ds_next' = DatasetSkip(driver, r.global_step)
           /\ used' = SubSeq(used, 1, r.global_step)
    /\ run' = [run EXCEPT !.restored = LatestCheckpoint(ckpts)]
    /\ tpc' = "loop"
    /\ UNCHANGED <<ckpts, saved, driver, checkpoint_every, continuous, batch_rows>>

\* `for batch in ds: global_step.assign_add(1)`
TNextBatch ==
    /\ UNCHANGED <<evalVars, lossVars, bucketVars, prefixVars>>
    /\ tpc = "loop"
    /\ global_step < MaxStep
    /\ batch_rows' = StreamRows(ds_next)
    /\ used' = Append(used, ds_next)
    /\ ds_next' = ds_next + 1
    /\ global_step' = global_step + 1
    /\ tpc' = "incremented"
    /\ UNCHANGED <<ckpts, saved, driver, checkpoint_every, continuous,
                   num_examples_processed, params, run>>

\* `num_examples_processed.assign_add(shape(batch)[0])` (train.py only)
TCount ==
    /\ UNCHANGED <<evalVars, lossVars, bucketVars, prefixVars, used>>
    /\ tpc = "incremented"
    /\ driver = "train"
    /\ num_examples_processed' = num_examples_processed + batch_rows
    /\ tpc' = "counted"
    /\ UNCHANGED <<ckpts, saved, driver, checkpoint_every, continuous, global_step,
                   params, ds_next, batch_rows, run>>

\* `loss = train_step(batch)`: one gradient update of the parameters
TTrainStep ==
    /\ UNCHANGED <<evalVars, lossVars, bucketVars, prefixVars, used>>
    /\ \/ driver = "train" /\ tpc = "counted"
       \/ driver = "inverse_bert" /\ tpc = "incremented"
    /\ params' = params + 1
    /\ run' = [run EXCEPT !.steps = @ + 1]
    /\ tpc' = "stepped"
    /\ UNCHANGED <<ckpts, saved, driver, checkpoint_every, continuous, global_step,
                   num_examples_processed, ds_next, batch_rows>>

\* `if global_step % checkpoint_every == 0: ckpt_manager.save(...)` taken
TSave ==
    /\ UNCHANGED <<evalVars, lossVars, bucketVars, prefixVars, used>>
    /\ tpc = "stepped"
    /\ ShouldCheckpoint(global_step, checkpoint_every)
    /\ LET c == Snapshot(global_step, num_examples_processed, params, Len(saved))
       IN  /\ ckpts' = ManagerSave(ckpts, c)
           /\ saved' = Append(saved, c.tag)
    /\ run' = [run EXCEPT !.saves = @ + 1]
    /\ tpc' = AfterSave(driver, continuous)
    /\ batch_rows' = 0
    /\ UNCHANGED <<driver, checkpoint_every, continuous, global_step,
                   num_examples_processed, params, ds_next>>

\* the same test not taken: on to the next batch
TSkipSave ==
    /\ UNCHANGED <<evalVars, lossVars, bucketVars, prefixVars, used>>
    /\ tpc = "stepped"
    /\ ~ShouldCheckpoint(global_step, checkpoint_every)
    /\ tpc' = "loop"
    /\ batch_rows' = 0
    /\ UNCHANGED <<ckpts, saved, driver, checkpoint_every, continuous, global_step,
                   num_examples_processed, params, ds_next, run>>

\* KeyboardInterrupt delivered while the loop runs
TInterrupt ==
    /\ UNCHANGED <<evalVars, lossVars, bucketVars, prefixVars, used>>
    /\ tpc \in LoopPcs
    /\ tpc' = TrainerAfterInterrupt(driver)
    /\ run' = [run EXCEPT !.interrupted = TRUE]
    /\ UNCHANGED <<ckpts, saved, driver, checkpoint_every, continuous, global_step,
                   num_examples_processed, params, ds_next, batch_rows>>

-----------------------------------------------------------------------------
(* The evaluation process (evaluate.py) *)

FreshModel == [tag |-> NoCheckpoint, global_step |-> 0, updates |-> 0]

\* Mutation of EvaluateEntry: the `else: raise RuntimeError` is missing.
EvaluateEntryNoRaise(latest) == "mgr"

\* evaluate(), lines 52-56: restore when the manager reports a checkpoint,
\* `raise RuntimeError("Couldn't load from checkpoint")` otherwise. main
\* catches KeyboardInterrupt only, so the error ends the process.
EvaluateEntry(latest) == IF latest # NoCheckpoint THEN "mgr" ELSE "crashed"

\* Mutation of RestoreInto: global_step is not among the restored objects.
RestoreIntoNoStep(model, dir, path) ==
    IF path = NoCheckpoint THEN model
    ELSE LET c == ReadCheckpoint(dir, path)
         IN  [tag |-> c.tag, global_step |-> model.global_step, updates |-> c.updates]

\* ckpt.restore(path): the model and global_step of the evaluator after it.
\* restore(None) restores nothing; a path whose files are gone is an error.
RestoreInto(model, dir, path) ==
    IF path = NoCheckpoint THEN model
    ELSE LET c == ReadCheckpoint(dir, path)
         IN  [tag |-> c.tag, global_step |-> c.global_step, updates |-> c.updates]

\* The step every summary of an evaluation is written with: global_step.numpy()
SummaryStep(model) == model.global_step

\* Mutation of PollExit: the polling loop never sees a new checkpoint.
PollExitNever(last, now) == FALSE

\* `while latest_checkpoint == tf.train.latest_checkpoint(...): time.sleep(10)`
PollExit(last, now) == last # now

\* main's `except KeyboardInterrupt: pass`
EvalAfterInterrupt == "done"

EvalPcs == {"main", "called", "mgr", "restored", "evaluated", "returned", "waiting"}

\* app.run(main)
EStart ==
    /\ UNCHANGED <<trainVars, lossVars, bucketVars, prefixVars>>
    /\ epc = "idle"
    /\ wait_for_checkpoint' \in BOOLEAN
    /\ epc' = "main"
    /\ UNCHANGED <<latest_checkpoint, mgr_latest, eval_model, emitted, eval_interrupted>>

\* main, line 122: latest_checkpoint = tf.train.latest_checkpoint(path)
EReadLatest ==
    /\ UNCHANGED <<trainVars, lossVars, bucketVars, prefixVars>>
    /\ epc = "main"
    /\ Len(emitted) < MaxEvals
    /\ latest_checkpoint' = LatestCheckpoint(ckpts)
    /\ epc' = "called"
    /\ UNCHANGED <<wait_for_checkpoint, mgr_latest, eval_model, emitted, eval_interrupted>>

\* evaluate, lines 41-56: fresh model and step, the manager reads the
\* directory, and the missing checkpoint is raised
EManager ==
    /\ UNCHANGED <<trainVars, lossVars, bucketVars, prefixVars>>
    /\ epc = "called"
    /\ eval_model' = FreshModel
    /\ mgr_latest' = LatestCheckpoint(ckpts)
    /\ epc' = EvaluateEntry(LatestCheckpoint(ckpts))
    /\ UNCHANGED <<wait_for_checkpoint, latest_checkpoint, emitted, eval_interrupted>>

\* evaluate, line 53: ckpt.restore(ckpt_manager.latest_checkpoint)
ERestore ==
    /\ UNCHANGED <<trainVars, lossVars, bucketVars, prefixVars>>
    /\ epc = "mgr"
    /\ IF mgr_latest = NoCheckpoint \/ mgr_latest \in Tags(ckpts)
       THEN /\ eval_model' = RestoreInto(eval_model, ckpts, mgr_latest)
            /\ epc' = "restored"
       ELSE /\ epc' = "crashed"
            /\ UNCHANGED eval_model
    /\ UNCHANGED <<wait_for_checkpoint, latest_checkpoint, mgr_latest, emitted, eval_interrupted>>

\* evaluate, lines 59-97: the evaluation steps over the dataset and the
\* decoded samples, all with the restored model
EEvalLoop ==
    /\ UNCHANGED <<trainVars, lossVars, bucketVars, prefixVars>>
    /\ epc = "restored"
    /\ epc' = "evaluated"
    /\ UNCHANGED <<wait_for_checkpoint, latest_checkpoint, mgr_latest, eval_model, emitted,
                   eval_interrupted>>

\* evaluate, lines 99-115: the scalar and text summaries, then return
EEmit ==
    /\ UNCHANGED <<trainVars, lossVars, bucketVars, prefixVars>>
    /\ epc = "evaluated"
    /\ emitted' = Append(emitted, [step |-> SummaryStep(eval_model), ckpt |-> eval_model.tag,
                                  updates |-> eval_model.updates])
    /\ epc' = "returned"
    /\ mgr_latest' = NoCheckpoint       \* evaluate's locals end with the call
    /\ eval_model' = FreshModel
    /\ UNCHANGED <<wait_for_checkpoint, latest_checkpoint, eval_interrupted>>

\* main, lines 130-134: poll for the next checkpoint or leave the loop
EAfter ==
    /\ UNCHANGED <<trainVars, lossVars, bucketVars, prefixVars>>
    /\ epc = "returned"
    /\ epc' = IF wait_for_checkpoint THEN "waiting" ELSE "done"
    /\ UNCHANGED <<wait_for_checkpoint, latest_checkpoint, mgr_latest, eval_model, emitted,
                   eval_interrupted>>

\* main, line 131: the poll sees another latest checkpoint and the loop
\* starts over (while it sees the same one the process sleeps)
EPoll ==
    /\ UNCHANGED <<trainVars, lossVars, bucketVars, prefixVars>>
    /\ epc = "waiting"
    /\ PollExit(latest_checkpoint, LatestCheckpoint(ckpts))
    /\ epc' = "main"
    /\ UNCHANGED <<wait_for_checkpoint, latest_checkpoint, mgr_latest, eval_model, emitted,
                   eval_interrupted>>

\* KeyboardInterrupt delivered inside main's try block
EInterrupt ==
    /\ UNCHANGED <<trainVars, lossVars, bucketVars, prefixVars>>
    /\ epc \in EvalPcs
    /\ epc' = EvalAfterInterrupt
    /\ latest_checkpoint' = NoCheckpoint    \* the locals end with the process
    /\ mgr_latest' = NoCheckpoint
    /\ eval_model' = FreshModel
    /\ eval_interrupted' = TRUE
    /\ UNCHANGED <<wait_for_checkpoint, emitted>>

-----------------------------------------------------------------------------
(* Batches, the one-token shift and the loss / metric masks.               *)
(* A batch is a matrix of token ids indexed from 0, as in the code:        *)
(* batch[r][j] is token j of row r.                                        *)

PAD == 0                \* `tf.math.equal(real, 0)`: zero is the padding value
start_idx == 1          \* vocab.start_idx (the vocabulary is external)

MaxWidth == 4           \* batches of up to this many columns
MaxPad == 2             \* padding columns added to a batch: 1..MaxPad

TokenSet == {PAD, start_idx, 2, 3}
RowCounts == {1, 2}

Height(m) == Cardinality(DOMAIN m)
Width(m) == IF DOMAIN m = {} THEN 0 ELSE Cardinality(DOMAIN m[0])

\* Rows as padded_batch / bucket_by_sequence_length produce them: the tokens of
\* a sequence (none of them PAD) followed by padding up to the batch width.
PaddedRows(w) ==
    {row \in [0..(w - 1) -> TokenSet] :
        \A j \in 0..(w - 2) : row[j] = PAD => row[j + 1] = PAD}

Batches ==
    UNION {[0..(n - 1) -> PaddedRows(w)] : n \in RowCounts, w \in 1..MaxWidth}

\* batch[:, :-1]
ShiftInput(b) == [r \in DOMAIN b |-> [j \in 0..(Width(b) - 2) |-> b[r][j]]]

\* Mutation of ShiftTarget: the target is not shifted (batch[:, :-1]).
ShiftTargetUnshifted(b) == [r \in DOMAIN b |-> [j \in 0..(Width(b) - 2) |-> b[r][j]]]

\* batch[:, 1:]
ShiftTarget(b) == [r \in DOMAIN b |-> [j \in 0..(Width(b) - 2) |-> b[r][j + 1]]]

\* tf.math.logical_not(tf.math.equal(real, 0))
PaddingMask(gt) == [r \in DOMAIN gt |-> [j \in DOMAIN gt[r] |-> gt[r][j] # PAD]]

\* tf.argmax(v, axis=1) of one row: the smallest index holding the largest
\* value (0 for an empty row is never asked for: the width is at least 1)
ArgMax(v) ==
    CHOOSE i \in DOMAIN v :
        /\ \A k \in DOMAIN v : v[k] <= v[i]
        /\ \A k \in DOMAIN v : k < i => v[k] < v[i]

\* tf.cast(tf.equal(gt, vocab.start_idx), tf.int32), one row
IsStart(row) == [j \in DOMAIN row |-> IF row[j] = start_idx THEN 1 ELSE 0]

\* lengths = argmax(...); lengths += cast(lengths > 0)
PrefixLength(row) ==
    LET l == ArgMax(IsStart(row)) IN l + (IF l > 0 THEN 1 ELSE 0)

\* tf.logical_not(tf.sequence_mask(lengths, tf.shape(gt)[1]))
InputMask(gt) ==
    [r \in DOMAIN gt |-> [j \in DOMAIN gt[r] |-> ~(j < PrefixLength(gt[r]))]]

\* Mutation of TrainLossMask: the mean is taken over every position.
TrainLossMaskAll(gt) == [r \in DOMAIN gt |-> [j \in DOMAIN gt[r] |-> TRUE]]

\* train.py calculate_loss: the positions kept by tf.boolean_mask
TrainLossMask(gt) == PaddingMask(gt)

\* The same rows padded to a width larger by n (padded_shapes=[None] pads
\* every row to the longest sequence the batch holds).
PadColumns(b, n) ==
    [r \in DOMAIN b |-> [j \in 0..(Width(b) + n - 1) |->
        IF j < Width(b) THEN b[r][j] ELSE PAD]]

\* train_inverse_bert.py calculate_loss: logical_and(padding_mask, input_mask)
InverseLossMask(gt) ==
    IF Width(gt) = 0 THEN PaddingMask(gt)
    ELSE [r \in DOMAIN gt |-> [j \in DOMAIN gt[r] |->
            PaddingMask(gt)[r][j] /\ InputMask(gt)[r][j]]]

\* evaluate.py evaluation_step: sample_weight=padding_mask, as numbers
SampleWeights(gt) ==
    [r \in DOMAIN gt |-> [j \in DOMAIN gt[r] |-> IF PaddingMask(gt)[r][j] THEN 1 ELSE 0]]

\* The target positions a boolean mask keeps
Kept(mask) == {<<r, j>> \in (DOMAIN mask) \X (0..(Width(mask) - 1)) : mask[r][j]}

RECURSIVE SumRow(_, _)
SumRow(row, n) == IF n = 0 THEN 0 ELSE row[n - 1] + SumRow(row, n - 1)

RECURSIVE SumRows(_, _)
SumRows(m, n) == IF n = 0 THEN 0 ELSE SumRow(m[n - 1], Width(m)) + SumRows(m, n - 1)

\* The total weight a metric accumulates for one batch
TotalWeight(w) == SumRows(w, Height(w))

NoLoss == [fn |-> "none", kept |-> {}, count |-> 0]

\* train.py train_step / calculate_loss on the batch
LTrainLoss ==
    /\ UNCHANGED <<trainVars, evalVars, bucketVars, prefixVars>>
    /\ lpc = "batch"
    /\ LET m == TrainLossMask(ShiftTarget(batch))
       IN  loss_out' = [fn |-> "train", kept |-> Kept(m), count |-> Cardinality(Kept(m))]
    /\ lpc' = "done"
    /\ UNCHANGED batch

\* train_inverse_bert.py train_step / calculate_loss on the batch
LInverseLoss ==
    /\ UNCHANGED <<trainVars, evalVars, bucketVars, prefixVars>>
    /\ lpc = "batch"
    /\ LET m == InverseLossMask(ShiftTarget(batch))
       IN  loss_out' = [fn |-> "inverse_bert", kept |-> Kept(m), count |-> Cardinality(Kept(m))]
    /\ lpc' = "done"
    /\ UNCHANGED batch

\* train.py train_step / calculate_loss on the same rows padded further
LTrainLossPadded ==
    /\ UNCHANGED <<trainVars, evalVars, bucketVars, prefixVars>>
    /\ lpc = "done"
    /\ loss_out.fn = "train"
    /\ \E n \in 1..MaxPad : batch' = PadColumns(batch, n)
    /\ LET m == TrainLossMask(ShiftTarget(batch'))
       IN  loss_out' = [fn |-> "train", kept |-> Kept(m), count |-> Cardinality(Kept(m))]
    /\ lpc' = "padded"

\* evaluate.py evaluation_step on the batch: the weights both metrics receive
LEvalStep ==
    /\ UNCHANGED <<trainVars, evalVars, bucketVars, prefixVars>>
    /\ lpc = "batch"
    /\ LET w == SampleWeights(ShiftTarget(batch))
       IN  loss_out' = [fn |-> "evaluate",
                        kept |-> {<<r, j>> \in (DOMAIN w) \X (0..(Width(w) - 1)) : w[r][j] > 0},
                        count |-> TotalWeight(w)]
    /\ lpc' = "done"
    /\ UNCHANGED batch

-----------------------------------------------------------------------------
(* The bucket schedule of train.py's get_dataset *)

MaxBudget == 12         \* max_tokens ranges over 1..MaxBudget and the default
MaxSeqLimit == 12       \* max_seq_len ranges over 1..MaxSeqLimit and the default
MaxLen == 13            \* sequence lengths 0..MaxLen, and one above every limit
MaxSeqs == 2            \* sequences in the dataset file

DefaultMaxTokens == 100     \* hp.add("max_tokens", 100)
DefaultMaxSeqLen == 600     \* hp.add("max_seq_len", 600)

TokenBudgets == (1..MaxBudget) \cup {DefaultMaxTokens}
SeqLimits == (1..MaxSeqLimit) \cup {DefaultMaxSeqLen}
SeqLengths == (0..MaxLen) \cup {DefaultMaxSeqLen + 1}

\* [i for i in range(1, n + 1) if max_tokens % i == 0], as a sequence
DivisorsUpTo(tokens, n) ==
    SelectSeq([i \in 1..n |-> i], LAMBDA i : tokens % i = 0)

\* boundaries = [i for i in range(1, max_seq_len + 1) if max_tokens % i == 0]
Boundaries(tokens, limit) == DivisorsUpTo(tokens, limit)

\* Mutation of BatchSizes: every bucket gets the size computed from its
\* lower boundary.
BatchSizesLower(tokens, limit) ==
    LET b == DivisorsUpTo(tokens, limit)
    IN  <<tokens>> \o [i \in 1..Len(b) |-> tokens \div b[i]]

\* batch_sizes = [int(max_tokens / i) for i in ... if max_tokens % i == 0] + [1]
BatchSizes(tokens, limit) ==
    LET b == DivisorsUpTo(tokens, limit)
    IN  [i \in 1..Len(b) |-> tokens \div b[i]] \o <<1>>

\* Mutation of BucketId: a bucket takes the lengths up to and including its
\* boundary (buckets_min[i] < length <= buckets_max[i]).
BucketIdInclusive(length, boundaries) ==
    LET n == Len(boundaries)
        lo(i) == IF i = 0 THEN -2147483647 - 1 ELSE boundaries[i]
        hi(i) == IF i = n THEN 2147483647 ELSE boundaries[i + 1]
        fits == {i \in 0..n : lo(i) < length /\ length <= hi(i)}
    IN  CHOOSE i \in fits : \A k \in fits : i <= k

\* bucket_by_sequence_length's element_to_bucket_id: with
\* buckets_min = [int32 min] + boundaries and buckets_max = boundaries + [int32 max],
\* the least i (from 0) with buckets_min[i] <= length < buckets_max[i].
BucketId(length, boundaries) ==
    LET n == Len(boundaries)
        lo(i) == IF i = 0 THEN -2147483647 - 1 ELSE boundaries[i]
        hi(i) == IF i = n THEN 2147483647 ELSE boundaries[i + 1]
        fits == {i \in 0..n : lo(i) <= length /\ length < hi(i)}
    IN  CHOOSE i \in fits : \A k \in fits : i <= k

\* The batch size of the window a sequence of this length is grouped into
BucketBatchSize(length, tokens, limit) ==
    BatchSizes(tokens, limit)[BucketId(length, Boundaries(tokens, limit)) + 1]

NoBucket == [id |-> -1, batch_size |-> 0]

\* padded_shapes=[None]: the rows of a batch are padded to its longest row
RECURSIVE PaddedLength(_)
PaddedLength(rows) ==
    IF rows = <<>> THEN 0
    ELSE LET rest == PaddedLength(Tail(rows))
         IN  IF Head(rows) > rest THEN Head(rows) ELSE rest

\* A batch as the pipeline emits it: the lengths of its rows and its width.
BatchOf(rows) == [rows |-> rows, padded |-> PaddedLength(rows)]

NoBatch == BatchOf(<<>>)

\* The windows of group_by_window, one per bucket id, all empty.
EmptyWindows(tokens, limit) == [i \in 0..Len(Boundaries(tokens, limit)) |-> <<>>]

Pending(w) == {i \in DOMAIN w : w[i] # <<>>}

\* get_dataset(dataset_path, max_tokens, max_seq_len, ...): the schedule is fixed
BConfigure ==
    /\ UNCHANGED <<trainVars, evalVars, lossVars, prefixVars>>
    /\ bpc = "idle"
    /\ max_tokens' \in TokenBudgets
    /\ max_seq_len' \in SeqLimits
    /\ bpc' = "ready"
    /\ windows' = EmptyWindows(max_tokens', max_seq_len')
    /\ UNCHANGED <<seq_len, bucket_out, out_batch, fed, delivered>>

\* one parsed sequence reaches bucket_by_sequence_length: it joins the window
\* of its bucket, and a window that has reached its batch size is emitted
BRoute ==
    /\ UNCHANGED <<trainVars, evalVars, lossVars, prefixVars>>
    /\ bpc = "ready"
    /\ fed < MaxSeqs
    /\ seq_len' \in SeqLengths
    /\ bucket_out' = [id |-> BucketId(seq_len', Boundaries(max_tokens, max_seq_len)),
                      batch_size |-> BucketBatchSize(seq_len', max_tokens, max_seq_len)]
    /\ LET id == bucket_out'.id
           w == Append(windows[id], seq_len')
       IN  IF Len(w) >= bucket_out'.batch_size
           THEN /\ out_batch' = BatchOf(w)
                /\ windows' = [windows EXCEPT ![id] = <<>>]
                /\ delivered' = delivered + Len(w)
           ELSE /\ out_batch' = NoBatch
                /\ windows' = [windows EXCEPT ![id] = w]
                /\ UNCHANGED delivered
    /\ fed' = fed + 1
    /\ UNCHANGED <<bpc, max_tokens, max_seq_len>>

\* the dataset file is exhausted
BEndOfInput ==
    /\ UNCHANGED <<trainVars, evalVars, lossVars, prefixVars>>
    /\ bpc = "ready"
    /\ bpc' = "flushing"
    /\ out_batch' = NoBatch
    /\ UNCHANGED <<max_tokens, max_seq_len, seq_len, bucket_out, windows, fed, delivered>>

\* at the end of the input group_by_window emits each window left partly filled
BFlush ==
    /\ UNCHANGED <<trainVars, evalVars, lossVars, prefixVars>>
    /\ bpc = "flushing"
    /\ \E id \in Pending(windows) :
          /\ out_batch' = BatchOf(windows[id])
          /\ windows' = [windows EXCEPT ![id] = <<>>]
          /\ delivered' = delivered + Len(windows[id])
    /\ UNCHANGED <<bpc, max_tokens, max_seq_len, seq_len, bucket_out, fed>>

-----------------------------------------------------------------------------
(* The paragraph pipeline of train_inverse_bert.py's get_dataset.          *)
(* A segment of an article is the text between two "<p>": `space` blanks   *)
(* around `text` other characters. Only lengths are kept.                  *)

MinParagraphChars == 50     \* `tf.strings.length(paragraph_text, unit="UTF8_CHAR") > 50`
MaxChunkChars == 50         \* `if len(noun_chunk.text) < 50`

ParagraphSpread == 2    \* paragraph lengths MinParagraphChars -/+ ParagraphSpread
MaxParagraphs == 2      \* segments per article: 1..MaxParagraphs

ParagraphLengths ==
    (MinParagraphChars - ParagraphSpread)..(MinParagraphChars + ParagraphSpread)

Segments == [space : {0, 1}, text : ParagraphLengths]

Articles == UNION {[1..n -> Segments] : n \in 1..MaxParagraphs}

\* The noun chunks spacy reports for a paragraph (their lengths)
ChunkLists == {<<>>, <<MaxChunkChars - 1>>, <<MaxChunkChars>>}

\* split_article: split on "<p>", then p.strip() for every part
SplitArticle(a) == [i \in 1..Len(a) |-> a[i].text]

\* the filter of line 57
KeepParagraph(length) == length > MinParagraphChars

\* encode_with_spanned_prefix: a separator and the chunk for every noun chunk
\* shorter than 50 characters, then the paragraph with start and end token
EncodeWithSpannedPrefix(i, length, chunks) ==
    [source |-> i, paragraph |-> length,
     prefixes |-> SelectSeq(chunks, LAMBDA c : c < MaxChunkChars)]

\* TextLineDataset yields a line and flat_map splits it
PSplitArticle ==
    /\ UNCHANGED <<trainVars, evalVars, lossVars, bucketVars>>
    /\ ppc = "idle"
    /\ article' \in Articles
    /\ paragraphs' = SplitArticle(article')
    /\ pidx' = 1
    /\ sequences' = <<>>
    /\ ppc' = "filter"

\* ds.filter on the next paragraph: kept for the map, or dropped
PFilter ==
    /\ UNCHANGED <<trainVars, evalVars, lossVars, bucketVars>>
    /\ ppc = "filter"
    /\ pidx <= Len(paragraphs)
    /\ IF KeepParagraph(paragraphs[pidx])
       THEN ppc' = "encode" /\ UNCHANGED pidx
       ELSE pidx' = pidx + 1 /\ UNCHANGED ppc
    /\ UNCHANGED <<article, paragraphs, sequences>>

\* ds.map(encode_with_spanned_prefix) on a paragraph the filter kept
PEncode ==
    /\ UNCHANGED <<trainVars, evalVars, lossVars, bucketVars>>
    /\ ppc = "encode"
    /\ \E chunks \in ChunkLists :
          sequences' = Append(sequences,
                              EncodeWithSpannedPrefix(pidx, paragraphs[pidx], chunks))
    /\ pidx' = pidx + 1
    /\ ppc' = "filter"
    /\ UNCHANGED <<article, paragraphs>>

\* the paragraphs of the article are exhausted
PEndOfArticle ==
    /\ UNCHANGED <<trainVars, evalVars, lossVars, bucketVars>>
    /\ ppc = "filter"
    /\ pidx > Len(paragraphs)
    /\ ppc' = "done"
    /\ UNCHANGED <<article, paragraphs, pidx, sequences>>

-----------------------------------------------------------------------------

InitTrainer ==
    /\ ckpts = <<>>
    /\ saved = <<>>
    /\ driver \in {"train", "inverse_bert"}
    /\ tpc = "idle"
    /\ checkpoint_every = 1
    /\ continuous = TRUE
    /\ global_step = 0
    /\ num_examples_processed = 0
    /\ params = 0
    /\ ds_next = 0
    /\ batch_rows = 0
    /\ run = FreshRun
    /\ used = <<>>

InitEvaluator ==
    /\ epc = "idle"
    /\ wait_for_checkpoint = FALSE
    /\ latest_checkpoint = NoCheckpoint
    /\ mgr_latest = NoCheckpoint
    /\ eval_model = FreshModel
    /\ emitted = <<>>
    /\ eval_interrupted = FALSE

IdleLoss == lpc = "idle" /\ batch = <<>> /\ loss_out = NoLoss

IdleBucket ==
    /\ bpc = "idle"
    /\ max_tokens = 0
    /\ max_seq_len = 0
    /\ seq_len = 0
    /\ bucket_out = NoBucket
    /\ windows = <<>>
    /\ out_batch = NoBatch
    /\ fed = 0
    /\ delivered = 0

IdlePrefix ==
    /\ ppc = "idle"
    /\ article = <<>>
    /\ paragraphs = <<>>
    /\ pidx = 1
    /\ sequences = <<>>

Init == InitTrainer /\ InitEvaluator /\ IdleLoss /\ IdleBucket /\ IdlePrefix

Next ==
    \/ TStart
    \/ TRestore
    \/ TNextBatch
    \/ TCount
    \/ TTrainStep
    \/ TSave
    \/ TSkipSave
    \/ TInterrupt

Spec == Init /\ [][Next]_vars

NextEval ==
    \/ TStart
    \/ TRestore
    \/ TNextBatch
    \/ TCount
    \/ TTrainStep
    \/ TSave
    \/ TSkipSave
    \/ TInterrupt
    \/ EStart
    \/ EReadLatest
    \/ EManager
    \/ ERestore
    \/ EEvalLoop
    \/ EEmit
    \/ EAfter
    \/ EPoll
    \/ EInterrupt

InitEval == Init /\ driver = "train"

SpecEval == InitEval /\ [][NextEval]_vars

IdleTrainer == InitTrainer /\ driver = "train"

\* train.py has been started with --continuous and stands before its restore;
\* evaluate.py has been started with --wait_for_checkpoint and enters main.
InitPoll ==
    /\ ckpts = <<>>
    /\ saved = <<>>
    /\ driver = "train"
    /\ tpc = "init"
    /\ checkpoint_every \in CheckpointEverySet
    /\ continuous = TRUE
    /\ global_step = 0
    /\ num_examples_processed = 0
    /\ params = 0
    /\ ds_next = 0
    /\ batch_rows = 0
    /\ run = FreshRun
    /\ used = <<>>
    /\ epc = "main"
    /\ wait_for_checkpoint = TRUE
    /\ latest_checkpoint = NoCheckpoint
    /\ mgr_latest = NoCheckpoint
    /\ eval_model = FreshModel
    /\ emitted = <<>>
    /\ eval_interrupted = FALSE
    /\ IdleLoss /\ IdleBucket /\ IdlePrefix

NextPoll ==
    \/ TRestore
    \/ TNextBatch
    \/ TCount
    \/ TTrainStep
    \/ TSave
    \/ TSkipSave
    \/ EReadLatest
    \/ EManager
    \/ ERestore
    \/ EEvalLoop
    \/ EEmit
    \/ EAfter
    \/ EPoll
    \/ EInterrupt

\* The evaluator process keeps running: every statement of main and evaluate
\* that can run does run, each evaluation ends, and the polling loop wakes up
\* from its sleep and tests again. Nothing is assumed of the trainer or of
\* the user's interrupt.
EvaluatorFair ==
    /\ WF_vars(EReadLatest)
    /\ WF_vars(EManager)
    /\ WF_vars(ERestore)
    /\ WF_vars(EEvalLoop)
    /\ WF_vars(EEmit)
    /\ WF_vars(EAfter)
    /\ WF_vars(EPoll)

SpecPoll == InitPoll /\ [][NextPoll]_vars /\ EvaluatorFair

InitLoss ==
    /\ IdleTrainer /\ InitEvaluator /\ IdleBucket /\ IdlePrefix
    /\ lpc = "batch"
    /\ batch \in Batches
    /\ loss_out = NoLoss

NextLoss ==
    \/ LTrainLoss
    \/ LTrainLossPadded
    \/ LInverseLoss
    \/ LEvalStep

SpecLoss == InitLoss /\ [][NextLoss]_vars

InitBucket == IdleTrainer /\ InitEvaluator /\ IdleLoss /\ IdleBucket /\ IdlePrefix

NextBucket ==
    \/ BConfigure
    \/ BRoute
    \/ BEndOfInput
    \/ BFlush

SpecBucket == InitBucket /\ [][NextBucket]_vars

InitPrefix == IdleTrainer /\ InitEvaluator /\ IdleLoss /\ IdleBucket /\ IdlePrefix

NextPrefix ==
    \/ PSplitArticle
    \/ PFilter
    \/ PEncode
    \/ PEndOfArticle

SpecPrefix == InitPrefix /\ [][NextPrefix]_vars

-----------------------------------------------------------------------------
(* Properties *)

Last(q) == q[Len(q)]
Min(a, b) == IF a < b THEN a ELSE b
TagSeq(dir) == [i \in 1..Len(dir) |-> dir[i].tag]

\* The training process has finished its initialization and has not yet
\* fetched a batch.
JustInitialized == tpc = "loop" /\ run.steps = 0 /\ batch_rows = 0

\* C1: when a train.py process has initialized, its global step and example
\* counter are those stored in the latest checkpoint (the most recent save of
\* any earlier run, whose step is not 0), and both are 0 when the directory
\* holds no checkpoint; this after any earlier runs, saves and restarts.
C1_ResumeAtCheckpoint ==
    (driver = "train" /\ JustInitialized) =>
        IF Len(saved) = 0
        THEN /\ ckpts = <<>>
             /\ global_step = 0
             /\ num_examples_processed = 0
        ELSE /\ ckpts # <<>>
             /\ Last(ckpts).tag = Last(saved)
             /\ global_step = Last(ckpts).global_step
             /\ global_step = Last(saved)
             /\ global_step > 0
             /\ num_examples_processed = Last(ckpts).num_examples_processed
             /\ num_examples_processed > 0

\* A third run of train.py resumes at the checkpoint of step 3.
C1_Witness ==
    /\ driver = "train"
    /\ JustInitialized
    /\ global_step = 3
    /\ num_examples_processed = 6
    /\ saved = <<2, 3>>

\* An iteration of the loop runs to its end (it is not cut by an interrupt).
IterationEnds == tpc = "stepped" /\ tpc' \in {"loop", "done"} /\ run'.interrupted = run.interrupted

\* C2: in both drivers a loop iteration saves a checkpoint if and only if the
\* global step after the iteration's increment is a multiple of
\* checkpoint_every, and the tag of the saved checkpoint and the global step
\* stored in it both equal that global step; nothing else writes the directory.
C2_SaveIffMultiple ==
    [][/\ IterationEnds => ((saved' # saved) <=> (global_step % checkpoint_every = 0))
       /\ (saved' # saved) =>
            /\ IterationEnds
            /\ saved' = Append(saved, global_step)
            /\ ckpts' # <<>>
            /\ Last(ckpts').tag = global_step
            /\ Last(ckpts').global_step = global_step
       /\ (ckpts' # ckpts) => (saved' # saved)]_vars

\* train_inverse_bert.py with checkpoint_every = 2 has ended iterations that
\* saved and iterations that did not.
C2_Witness ==
    /\ driver = "inverse_bert"
    /\ checkpoint_every = 2
    /\ tpc = "loop"
    /\ run.steps = 3
    /\ run.saves = 1
    /\ Last(saved) = global_step - 1

\* C3: after n saves the directory holds exactly the min(n, 5) most recent
\* ones, in the order saved, never more than 5; after 7 saves the 2 oldest
\* are gone.
C3_Retention ==
    LET n == Len(saved)
        k == Min(n, max_to_keep)
    IN  /\ Len(ckpts) = k
        /\ TagSeq(ckpts) = SubSeq(saved, n - k + 1, n)
        /\ Len(ckpts) <= 5
        /\ n = 7 => /\ Len(ckpts) = 5
                    /\ saved[1] \notin Tags(ckpts)
                    /\ saved[2] \notin Tags(ckpts)

\* Seven saves have been made, over more than one run.
C3_Witness ==
    /\ Len(saved) = 7
    /\ Len(ckpts) = 5
    /\ run.saves < 7

\* No evaluation step, sample or summary without a restored checkpoint.
EvaluatesRestoredOnly ==
    /\ epc \in {"restored", "evaluated"} =>
            eval_model.tag # NoCheckpoint /\ eval_model.tag = mgr_latest
    /\ \A i \in 1..Len(emitted) : emitted[i].ckpt # NoCheckpoint

\* evaluate() is entered with the manager finding no checkpoint.
EntersWithoutCheckpoint ==
    epc = "called" /\ epc' # "called" /\ ~eval_interrupted' /\ ckpts = <<>>

\* C4: evaluate() runs no evaluation step, draws no sample and emits no
\* metric unless a checkpoint was restored first; with no checkpoint in the
\* directory it raises before the dataset is read and the error ends the
\* process (main does not catch it and nothing runs after it).
C4_NoEvaluationWithoutCheckpoint ==
    /\ []EvaluatesRestoredOnly
    /\ [][/\ EntersWithoutCheckpoint => epc' = "crashed"
          /\ epc = "crashed" => (epc' = "crashed" /\ emitted' = emitted)]_vars

\* The evaluator was started on an empty directory and has aborted, while the
\* trainer has saved a checkpoint since.
C4_Witness ==
    /\ epc = "crashed"
    /\ mgr_latest = NoCheckpoint
    /\ emitted = <<>>
    /\ Len(saved) = 1

\* C5: in every entry point that runs a loop an interrupt delivered inside
\* the loop ends the process normally: once interrupted, the process is done
\* (not crashed), and so writes nothing more.
C5_InterruptEndsNormally ==
    /\ run.interrupted => tpc = "done"
    /\ eval_interrupted => epc = "done"

\* C6: in polling mode no checkpoint is evaluated twice: every evaluation
\* restores a checkpoint newer than the one the evaluation before it restored.
C6_NoCheckpointEvaluatedTwice ==
    \A i \in 1..Len(emitted) : \A j \in 1..Len(emitted) :
        i < j => emitted[i].ckpt < emitted[j].ckpt

\* C8: train.py with continuous=False ends right after the first save of the
\* process, with no gradient step after it and at most checkpoint_every
\* gradient steps since start or restore; with continuous=True a save is
\* followed by the next iteration and the loop ends only by an interrupt.
C8_SingleShotOrContinuous ==
    /\ [](driver = "train" =>
            /\ ~continuous =>
                    /\ run.saves <= 1
                    /\ run.saves = 1 => tpc = "done"
                    /\ run.steps <= checkpoint_every
            /\ (continuous /\ tpc = "done") => run.interrupted)
    /\ [][(driver = "train" /\ saved' # saved) =>
            /\ continuous => tpc' = "loop"
            /\ ~continuous => (tpc' = "done" /\ run'.saves = 1 /\ ~run'.interrupted)]_vars

\* A single-shot run restored step 1 and ended after one gradient step, at
\* the save of step 2.
C8_Witness ==
    /\ driver = "train"
    /\ ~continuous
    /\ checkpoint_every = 2
    /\ run.restored = 1
    /\ run.steps = 1
    /\ run.saves = 1
    /\ ~run.interrupted
    /\ tpc = "done"
    /\ Last(saved) = 2

\* The bucket boundaries as the set of divisors of max_tokens up to max_seq_len.
BoundarySet == {k \in 1..max_seq_len : max_tokens % k = 0}

SetMin(S) == CHOOSE x \in S : \A y \in S : x <= y

\* max_tokens // k for the smallest boundary k of the set, 1 when it is empty.
BatchSizeFor(S) == IF S = {} THEN 1 ELSE max_tokens \div SetMin(S)

Routed == bpc = "ready" /\ bucket_out # NoBucket

Target == ShiftTarget(batch)

\* Index of the first start token of a target row (used only when there is one).
FirstStart(row) == SetMin({j \in DOMAIN row : row[j] = start_idx})

HasStart(row) == \E j \in DOMAIN row : row[j] = start_idx

\* C9: in the prefix-conditioned loss, for a target row holding the start
\* token, first at index p (any p >= 0), a position contributes to the loss
\* iff it is after p and is not padding; for a row without start token a
\* position contributes iff it is not padding.
C9_PrefixExcluded ==
    (lpc = "done" /\ loss_out.fn = "inverse_bert") =>
        \A r \in DOMAIN Target : \A j \in DOMAIN Target[r] :
            (<<r, j>> \in loss_out.kept) <=>
                /\ Target[r][j] # PAD
                /\ HasStart(Target[r]) => j > FirstStart(Target[r])

ExampleBatch ==
    [r \in 0..1 |-> IF r = 0 THEN [j \in 0..3 |-> <<1, 2, 3, 0>>[j + 1]]
                    ELSE [j \in 0..3 |-> <<1, 2, 0, 0>>[j + 1]]]

\* The positions of row r of the batch (1..width-1, as targets) left out.
ExcludedPositions(r) ==
    {j + 1 : j \in {i \in 0..(Width(batch) - 2) : <<r, i>> \notin loss_out.kept}}

\* The positions weighted are the non-padding positions of the shifted target.
WeightsNonPaddingTargets ==
    (lpc = "done" /\ loss_out.fn \in {"train", "evaluate"}) =>
        /\ loss_out.kept =
              {<<r, j>> \in (DOMAIN batch) \X (0..(Width(batch) - 2)) : batch[r][j + 1] # PAD}
        /\ loss_out.count = Cardinality(loss_out.kept)

\* C10 as stated: the weighted positions are the non-padding positions of the
\* shifted target; for [1,2,3,0] and [1,2,0,0] positions 3 and 2..3 are left
\* out and the accuracy sample weights sum to 5.
C10_ExampleWeightsFive ==
    /\ WeightsNonPaddingTargets
    /\ (lpc = "done" /\ batch = ExampleBatch /\ loss_out.fn \in {"train", "evaluate"}) =>
            /\ ExcludedPositions(0) = {3}
            /\ ExcludedPositions(1) = {2, 3}
            /\ loss_out.fn = "evaluate" => loss_out.count = 5

\* C10 amended: the same, with the accuracy sample weights summing to 3
\* (2 + 1 valid target positions after the one-token shift).
C10_ExampleWeightsThree ==
    /\ WeightsNonPaddingTargets
    /\ (lpc = "done" /\ batch = ExampleBatch /\ loss_out.fn \in {"train", "evaluate"}) =>
            /\ ExcludedPositions(0) = {3}
            /\ ExcludedPositions(1) = {2, 3}
            /\ loss_out.fn = "evaluate" => loss_out.count = 3

\* The evaluation step has weighted the example batch.
C10_Witness ==
    /\ lpc = "done"
    /\ batch = ExampleBatch
    /\ loss_out.fn = "evaluate"
    /\ loss_out.count = 3

\* The second batch holds the rows of the first followed by padding columns.
PaddedFurther(b, c) ==
    /\ DOMAIN c = DOMAIN b
    /\ Width(c) > Width(b)
    /\ \A r \in DOMAIN b : \A j \in 0..(Width(c) - 1) :
            c[r][j] = IF j < Width(b) THEN b[r][j] ELSE PAD

\* C11: for a batch with at least one non-padding target position, appending
\* trailing padding columns leaves the set of positions entering train.py's
\* masked mean, and their count, unchanged (so the loss is unchanged for equal
\* per-position loss values).
C11_LossPaddingInvariant ==
    [][(lpc = "done" /\ lpc' = "padded" /\ loss_out.count >= 1) =>
            /\ PaddedFurther(batch, batch')
            /\ loss_out'.kept = loss_out.kept
            /\ loss_out'.count = loss_out.count]_vars

\* A two-row batch with four valid target positions was padded by two columns.
C11_Witness ==
    /\ lpc = "padded"
    /\ loss_out.fn = "train"
    /\ loss_out.count = 4
    /\ Height(batch) = 2
    /\ Width(batch) = 6
    /\ batch[0][4] = PAD
    /\ batch[0][5] = PAD

\* C12: in train.py the batch used for step s is element s - 1 of the stream,
\* whatever runs, interrupts and restarts came before: a run restarted from the
\* checkpoint of step N fetches element N first, and steps 1..N followed by
\* the steps after the restart reproduce the stream with nothing replayed or
\* skipped.
C12_ResumeContinuesStream ==
    (driver = "train" /\ tpc # "init") =>
        /\ Len(used) = global_step
        /\ \A s \in 1..Len(used) : used[s] = s - 1
        /\ (JustInitialized /\ run.restored # NoCheckpoint) => ds_next = run.restored

\* A run restarted from the checkpoint of step 2, after an earlier run had gone
\* beyond it, has taken its first two steps.
C12_Witness ==
    /\ driver = "train"
    /\ run.restored = 2
    /\ run.steps = 2
    /\ used = <<0, 1, 2, 3>>
    /\ checkpoint_every = 2
    /\ Last(saved) = 2

\* The examples in the batches used for steps 1..n.
RECURSIVE ExamplesIn(_, _)
ExamplesIn(u, n) == IF n = 0 THEN 0 ELSE StreamRows(u[n]) + ExamplesIn(u, n - 1)

\* C13: when an interrupt has ended the train.py loop, the step in flight is
\* applied entirely or not at all (the global step, the example counter and
\* the parameters agree on the number of steps taken), and the latest
\* checkpoint is a complete one.
C13_InterruptAllOrNothing ==
    (driver = "train" /\ tpc = "done" /\ run.interrupted) =>
        /\ params = global_step
        /\ num_examples_processed = ExamplesIn(used, global_step)
        /\ ckpts # <<>> =>
              /\ Last(ckpts).updates = Last(ckpts).global_step
              /\ Last(ckpts).num_examples_processed =
                     ExamplesIn(used, Last(ckpts).global_step)

RangeOf(q) == {q[i] : i \in 1..Len(q)}

\* C14: every summary an evaluation has written carries the global step
\* stored in the checkpoint that evaluation restored, and its parameters are
\* the ones stored there (a checkpoint saved under tag t stores global step t
\* and the parameters after t updates), whatever the trainer saved or swept
\* during or between the evaluations.
C14_SummaryTaggedWithRestoredStep ==
    /\ \A i \in 1..Len(ckpts) :
           ckpts[i].global_step = ckpts[i].tag /\ ckpts[i].updates = ckpts[i].tag
    /\ \A i \in 1..Len(emitted) :
           /\ emitted[i].ckpt \in RangeOf(saved)
           /\ emitted[i].step = emitted[i].ckpt
           /\ emitted[i].updates = emitted[i].ckpt
    /\ epc \in {"restored", "evaluated"} =>
           /\ eval_model.tag \in RangeOf(saved)
           /\ SummaryStep(eval_model) = eval_model.tag

\* The evaluation of checkpoint 1 has written its summaries, a second
\* evaluation runs on checkpoint 2, and the trainer has saved step 3 meanwhile.
C14_Witness ==
    /\ Len(emitted) = 1
    /\ emitted[1].ckpt = 1
    /\ emitted[1].step = 1
    /\ epc = "evaluated"
    /\ eval_model.tag = 2
    /\ Last(saved) = 3

\* C15: every checkpoint train.py has on disk stores a global step equal to
\* the number of gradient updates, counted from the fresh start, contained in
\* the parameters it stores; across restarts and interrupts.
C15_StepCountsUpdates ==
    driver = "train" =>
        /\ \A i \in 1..Len(ckpts) : ckpts[i].global_step = ckpts[i].updates
        /\ tpc \in {"loop", "stepped"} => params = global_step

\* The second checkpoint of a run that was restarted from step 2 after the
\* run before it had been interrupted at step 3.
C15_Witness ==
    /\ driver = "train"
    /\ run.restored = 2
    /\ run.saves = 2
    /\ run.steps = 2
    /\ saved = <<1, 2, 3, 4>>
    /\ Last(ckpts).global_step = 4
    /\ Last(ckpts).updates = 4

\* C16: in both drivers every iteration adds the rows of its batch to the
\* example counter: once the step of an iteration is taken the counter equals
\* the examples of all batches processed so far, and every checkpoint stores
\* the examples of all batches processed up to its step.
C16_ExamplesCumulative ==
    /\ tpc = "stepped" => num_examples_processed = ExamplesIn(used, global_step)
    /\ \A i \in 1..Len(ckpts) :
           ckpts[i].num_examples_processed = ExamplesIn(used, ckpts[i].global_step)

\* C17: a train_inverse_bert.py process that has initialized from the
\* checkpoint of step N has a dataset positioned after the N batches consumed
\* before, so its first batch is not the first batch of the stream.
C17_InverseBertResumesDataset ==
    (driver = "inverse_bert" /\ JustInitialized /\ run.restored # NoCheckpoint) =>
        /\ ds_next = run.restored
        /\ ds_next # 0

RECURSIVE PendingCount(_, _)
PendingCount(w, ids) ==
    IF ids = {} THEN 0
    ELSE LET i == CHOOSE k \in ids : TRUE
         IN  Len(w[i]) + PendingCount(w, ids \ {i})

\* C18: every batch the bucketed pipeline emits whose sequences are all of
\* length <= max_tokens holds at most max_tokens tokens (rows times padded
\* length); a sequence longer than max_tokens is emitted as soon as it arrives,
\* alone and at its full length; no row is truncated and no sequence is lost
\* (every sequence fed is in an emitted batch or still in a window).
C18_TokenBudget ==
    LET rows == out_batch.rows
    IN  /\ (rows # <<>> /\ \A i \in 1..Len(rows) : rows[i] <= max_tokens) =>
               Len(rows) * out_batch.padded <= max_tokens
        /\ \A i \in 1..Len(rows) :
               /\ rows[i] <= out_batch.padded
               /\ rows[i] > max_tokens => Len(rows) = 1 /\ out_batch.padded = rows[i]
        /\ (Routed /\ seq_len > max_tokens) => rows = <<seq_len>>
        /\ bpc # "idle" => fed = delivered + PendingCount(windows, DOMAIN windows)

\* With max_tokens = 12 the sequences of lengths 4 and 5 fill the window of
\* the bucket [4, 6) and leave as a batch of 2 rows of width 5.
C18_Witness ==
    /\ max_tokens = 12
    /\ max_seq_len = 12
    /\ bpc = "ready"
    /\ out_batch.rows = <<4, 5>>
    /\ out_batch.padded = 5
    /\ delivered = 2

\* C19: a paragraph is dropped if and only if its character length is below
\* 50: once an article is processed, its paragraphs of length >= 50 (exactly 50
\* included) have each produced a training sequence and the others none.
C19_DroppedIffBelowMinimum ==
    ppc = "done" =>
        \A i \in 1..Len(paragraphs) :
            (paragraphs[i] >= MinParagraphChars) <=>
                (\E k \in 1..Len(sequences) : sequences[k].source = i)

\* The step of the latest persisted checkpoint, 0 when there is none.
LatestStep(dir) == IF dir = <<>> THEN 0 ELSE Last(dir).global_step

\* The loop stands between two iterations, or has left through `break`.
AtIterationEnd == tpc = "loop" \/ (tpc = "done" /\ ~run.interrupted)

\* train.py runs its loop with a checkpoint_every that divides the step it
\* started from.
RunsWithFixedEvery ==
    /\ driver = "train"
    /\ tpc \notin {"idle", "init"}
    /\ run.restored % checkpoint_every = 0

StrictlyIncreasing(q) == \A i \in 1..(Len(q) - 1) : q[i] < q[i + 1]

\* C20 as stated: at the end of every iteration the global step is less than
\* checkpoint_every ahead of the latest checkpoint; a crash at any point
\* loses fewer than checkpoint_every completed gradient steps; the steps of
\* the checkpoints strictly increase over the whole history.
C20_LosesFewerThanEvery ==
    RunsWithFixedEvery =>
        /\ AtIterationEnd => global_step - LatestStep(ckpts) < checkpoint_every
        /\ params - LatestStep(ckpts) < checkpoint_every
        /\ StrictlyIncreasing(saved)

\* C20: at the end of every iteration the global step is less than
\* checkpoint_every ahead of the latest checkpoint; a crash at any point
\* loses at most checkpoint_every completed gradient steps (all of them when
\* it falls between the update and the save of a saving iteration); the steps
\* of the checkpoints strictly increase over the whole history.
C20_LosesAtMostEvery ==
    RunsWithFixedEvery =>
        /\ AtIterationEnd => global_step - LatestStep(ckpts) < checkpoint_every
        /\ params - LatestStep(ckpts) <= checkpoint_every
        /\ StrictlyIncreasing(saved)

\* A run restarted from step 2 with checkpoint_every = 2 has applied the
\* update of step 4 and not yet saved it.
C20_Witness ==
    /\ driver = "train"
    /\ checkpoint_every = 2
    /\ run.restored = 2
    /\ tpc = "stepped"
    /\ global_step = 4
    /\ params - LatestStep(ckpts) = 2

\* The evaluator has been told to stop by the user.
Cancelled == eval_interrupted

\* The evaluations explored per behaviour are used up and main stands before
\* one more.
EvalsExhausted == Len(emitted) >= MaxEvals /\ epc = "main"

\* evaluate() has raised: no checkpoint to load, or the path is gone.
Aborted == epc = "crashed"

\* The evaluator waits, and its last evaluation was of checkpoint t.
WaitsAfter(t) == epc = "waiting" /\ emitted # <<>> /\ Last(emitted).ckpt = t

\* An evaluation is under way or over, main read a checkpoint older than t
\* for it, and t is now the latest checkpoint.
NewerAppeared(t) ==
    /\ epc \in {"called", "mgr", "restored", "evaluated", "returned", "waiting"}
    /\ latest_checkpoint < t
    /\ LatestCheckpoint(ckpts) = t

\* An evaluation has restored checkpoint t or a newer one.
RestoredAtLeast(t) == epc \in {"restored", "evaluated"} /\ eval_model.tag >= t

====
